---------------------------- MODULE Spec2Model ----------------------------
(***************************************************************************)
(* Model of src/main.py, the Kandy origin-destination traffic scraper:     *)
(* the text parsers parse_time and parse_distance, the per-unit scraper    *)
(* scrape_route driving the render client (a Playwright page), and main,   *)
(* which loops over OD_PAIRS and appends the results to the CSV file.      *)
(*                                                                         *)
(* Texts are sequences of one-character strings.  Python's None for a text *)
(* is the empty sequence: every test the code makes on time_text,          *)
(* distance_text, time_str and dist_str is a truthiness test, which None   *)
(* and "" answer alike.  Numbers are exact decimals [m, e] standing for    *)
(* m / 10^e, kept without trailing zeros, so that equal numbers are equal  *)
(* records.  None for a number is the record None.                         *)
(***************************************************************************)
EXTENDS Integers, Sequences, FiniteSets, TLC

VARIABLES
    pc,             \* control position in main / scrape_route / the parser harness
    run,            \* number of the current invocation of main
    idx,            \* position of the for-loop of main in OD_PAIRS (line 291)
    results,        \* main's list results (line 259)
    result,         \* scrape_route's dict result (line 111)
    time_text,      \* scrape_route's local time_text (line 160)
    distance_text,  \* scrape_route's local distance_text (line 161)
    route_text,     \* scrape_route's local route_text (line 172)
    exc,            \* the exception in flight / last caught in scrape_route
    calls,          \* the render-client calls made for the current unit, in order
    clock,          \* wall clock, in seconds (time.time(), datetime.now())
    start_time,     \* scrape_route's local start_time (line 110)
    requests,       \* page.goto calls made so far in this run
    slept,          \* seconds of asyncio.sleep (line 296) since the last page.goto
    csv,            \* the file CSV_FILE: whether it exists, and its lines
    file_exists,    \* main's local file_exists (line 301)
    written,        \* results written so far by the loop of line 311
    arg,            \* parser harness: the text handed to the parser
    ret             \* parser harness: what the parser returned

vars == <<pc, run, idx, results, result, time_text, distance_text, route_text, exc, calls,
          clock, start_time, requests, slept, csv, file_exists, written, arg, ret>>

(***************************************************************************)
(* Characters, numbers                                                     *)
(***************************************************************************)
Min(S) == CHOOSE x \in S : \A y \in S : x <= y

Digits == <<"0", "1", "2", "3", "4", "5", "6", "7", "8", "9">>
DigitSet == {Digits[i] : i \in 1..10}
DigitVal(c) == (CHOOSE i \in 1..10 : Digits[i] = c) - 1

\* \s of the re module, as far as the model's alphabet goes
Space == {" ", "\t", "\n"}

UpperCase == <<"A","B","C","D","E","F","G","H","I","J","K","L","M",
               "N","O","P","Q","R","S","T","U","V","W","X","Y","Z">>
LowerCase == <<"a","b","c","d","e","f","g","h","i","j","k","l","m",
               "n","o","p","q","r","s","t","u","v","w","x","y","z">>

\* str.lower()
Lower(s) ==
    [i \in 1..Len(s) |->
        IF \E k \in 1..26 : UpperCase[k] = s[i]
        THEN LowerCase[CHOOSE k \in 1..26 : UpperCase[k] = s[i]]
        ELSE s[i]]

\* str.strip()
Strip(s) ==
    LET keep == {i \in 1..Len(s) : s[i] \notin Space}
    IN  IF keep = {} THEN <<>>
        ELSE SubSeq(s, Min(keep), CHOOSE j \in keep : \A k \in keep : k <= j)

\* w in s, for strings
Contains(s, w) ==
    \E i \in 1..(Len(s) - Len(w) + 1) : SubSeq(s, i, i + Len(w) - 1) = w

\* the text s carries w at position i
HasAt(s, i, w) ==
    /\ i + Len(w) - 1 <= Len(s)
    /\ SubSeq(s, i, i + Len(w) - 1) = w

\* the first position from i on whose character is not in cls (Len(s)+1 if none):
\* where a greedy cls* starting at i ends
RunEnd(s, i, cls) ==
    LET stops == {j \in i..Len(s) : s[j] \notin cls}
    IN  IF stops = {} THEN Len(s) + 1 ELSE Min(stops)

None == [none |-> TRUE]
NoMatch == [none |-> TRUE]

RECURSIVE Pow10(_)
Pow10(n) == IF n = 0 THEN 1 ELSE 10 * Pow10(n - 1)

RECURSIVE Num(_, _)
\* the decimal m / 10^e, without trailing zeros
Num(m, e) == IF e > 0 /\ m % 10 = 0 THEN Num(m \div 10, e - 1) ELSE [m |-> m, e |-> e]

RECURSIVE IntOf(_)
\* int() of a string of digits
IntOf(ds) ==
    IF ds = <<>> THEN 0
    ELSE IntOf(SubSeq(ds, 1, Len(ds) - 1)) * 10 + DigitVal(ds[Len(ds)])

ValueError == [raised |-> "ValueError"]

\* float() of a string over [0-9.]: a ValueError unless it holds a digit and at
\* most one point
ParseFloat(g) ==
    LET dots == {i \in 1..Len(g) : g[i] = "."}
        ds   == SelectSeq(g, LAMBDA c : c \in DigitSet)
    IN  IF Cardinality(dots) > 1 \/ ds = <<>> THEN ValueError
        ELSE Num(IntOf(ds), IF dots = {} THEN 0 ELSE Len(g) - Min(dots))

\* x / 1000 on a number
DivThousand(x) == Num(x.m, x.e + 3)

\* Python's truth value of a number or None
Truthy(x) == x # None /\ x.m # 0

(***************************************************************************)
(* re.search(r'(cls+)\s*unit', s): the leftmost start of a run of cls      *)
(* characters that is followed, after optional white space, by unit; group *)
(* 1 is the run.  The run is maximal: a shorter one is followed by a cls   *)
(* character, which is neither white space nor the start of unit.          *)
(***************************************************************************)
SearchNumUnit(s, cls, unit) ==
    LET starts == {i \in 1..Len(s) :
                      /\ s[i] \in cls
                      /\ HasAt(s, RunEnd(s, RunEnd(s, i, cls), Space), unit)}
    IN  IF starts = {} THEN NoMatch
        ELSE [start |-> Min(starts),
              group |-> SubSeq(s, Min(starts), RunEnd(s, Min(starts), cls) - 1)]

(***************************************************************************)
(* parse_time, lines 59-80                                                 *)
(***************************************************************************)
parse_time_minutes_only(time_str) ==
    IF time_str = <<>> THEN None
    ELSE LET s == Strip(Lower(time_str))
             min_match == SearchNumUnit(s, DigitSet, <<"m", "i", "n">>)
             total == IF min_match # NoMatch THEN IntOf(min_match.group) ELSE 0
         IN  IF total > 0 THEN Num(total, 0) ELSE None

parse_time(time_str) ==
    IF time_str = <<>> THEN None
    ELSE LET s == Strip(Lower(time_str))
             hour_match == SearchNumUnit(s, DigitSet, <<"h">>)
             min_match  == SearchNumUnit(s, DigitSet, <<"m", "i", "n">>)
             total == (IF hour_match # NoMatch THEN IntOf(hour_match.group) * 60 ELSE 0)
                      + (IF min_match # NoMatch THEN IntOf(min_match.group) ELSE 0)
         IN  IF total > 0 THEN Num(total, 0) ELSE None

(***************************************************************************)
(* parse_distance, lines 83-103.  float() may raise ValueError, which the  *)
(* function does not catch: the model returns the record ValueError.       *)
(***************************************************************************)
parse_distance_meters(dist_str) ==
    IF dist_str = <<>> THEN None
    ELSE LET s == Strip(Lower(dist_str))
             km_match == SearchNumUnit(s, DigitSet \cup {"."}, <<"k", "m">>)
             m_match  == SearchNumUnit(s, DigitSet \cup {"."}, <<"m">>)
         IN  IF km_match # NoMatch
             THEN LET x == ParseFloat(km_match.group)
                  IN  IF x = ValueError THEN ValueError ELSE Num(x.m * 1000, x.e)
             ELSE IF m_match # NoMatch
             THEN ParseFloat(m_match.group)
             ELSE None

parse_distance(dist_str) ==
    IF dist_str = <<>> THEN None
    ELSE LET s == Strip(Lower(dist_str))
             km_match == SearchNumUnit(s, DigitSet \cup {"."}, <<"k", "m">>)
             m_match  == SearchNumUnit(s, DigitSet \cup {"."}, <<"m">>)
         IN  IF km_match # NoMatch
             THEN ParseFloat(km_match.group)
             ELSE IF m_match # NoMatch
             THEN LET x == ParseFloat(m_match.group)
                  IN  IF x = ValueError THEN ValueError ELSE DivThousand(x)
             ELSE None


(***************************************************************************)
(* Configuration, lines 16-56                                              *)
(***************************************************************************)
OD_PAIRS == <<
    [name |-> "Peradeniya to KMTT",
     origin |-> "Peradeniya, Sri Lanka",
     destination |-> "Kandy Municipal Transport Terminal, Kandy, Sri Lanka"],
    [name |-> "Temple of Tooth to Railway Station",
     origin |-> "Sri Dalada Maligawa, Kandy, Sri Lanka",
     destination |-> "Kandy Railway Station, Sri Lanka"],
    [name |-> "Peradeniya University to City Center",
     origin |-> "University of Peradeniya, Sri Lanka",
     destination |-> "Kandy City Center, Sri Lanka"],
    [name |-> "Katugastota to Peradeniya",
     origin |-> "Katugastota, Sri Lanka",
     destination |-> "Peradeniya, Sri Lanka"],
    [name |-> "Kandy to Digana",
     origin |-> "Kandy, Sri Lanka",
     destination |-> "Digana, Sri Lanka"] >>

CSV_HEADERS == <<"timestamp", "od_pair", "origin", "destination", "time_min",
                 "distance_km", "avg_speed_kmh", "process_time_sec", "status">>

\* seconds: the timeouts and waits of the render-client calls, and the delay
\* between units
GOTO_TIMEOUT == 30
CLICK_TIMEOUT == 3
CONSENT_WAIT == 2
PANEL_TIMEOUT == 15
PANEL_SETTLE == 2
REQUEST_DELAY == 3
\* characters of the exception text kept in the status (line 240)
ERROR_TEXT_LEN == 50

(***************************************************************************)
(* Exceptions.  PlaywrightTimeout (TimeoutError) derives from Playwright's *)
(* Error, which derives from Exception, like ValueError.                   *)
(***************************************************************************)
NoExc == [type |-> "none", msg |-> <<>>]

Subclasses(cls) ==
    CASE cls = "TimeoutError" -> {"TimeoutError"}
      [] cls = "Error"        -> {"Error", "TimeoutError"}
      [] cls = "Exception"    -> {"Exception", "Error", "TimeoutError", "ValueError"}

IsInstance(e, cls) == e.type \in Subclasses(cls)

TimeoutExc == [type |-> "TimeoutError", msg |-> <<"T", "i", "m", "e", "o", "u", "t">>]
\* a failure whose text is longer than ERROR_TEXT_LEN
NetError == [type |-> "Error",
             msg |-> <<"n", "e", "t", ":", ":", "E", "R", "R">> \o [i \in 1..52 |-> "_"]]
FloatError == [type |-> "ValueError", msg |-> <<"f", "l", "o", "a", "t">>]

\* the clause `except PlaywrightTimeout` of line 153
PanelHandlerCatches(e) == IsInstance(e, "TimeoutError")

OuterHandlerCatchesTimeoutOnly(e) == IsInstance(e, "TimeoutError")

\* the clause `except Exception` of line 238
OuterHandlerCatches(e) == IsInstance(e, "Exception")

\* the clauses `except Exception` of lines 143, 182, 200, 216
InnerHandlerCatches(e) == IsInstance(e, "Exception")

Status(kind) == [kind |-> kind, msg |-> <<>>]

\* f"error: {str(e)[:50]}", line 240
ErrorStatus(e) ==
    [kind |-> "error",
     msg |-> SubSeq(e.msg, 1, IF Len(e.msg) < ERROR_TEXT_LEN THEN Len(e.msg)
                                                            ELSE ERROR_TEXT_LEN)]

(***************************************************************************)
(* Helpers of the extraction strategies, lines 163-219                     *)
(***************************************************************************)
RECURSIVE SplitLines(_)
\* str.split('\n')
SplitLines(s) ==
    LET nl == {i \in 1..Len(s) : s[i] = "\n"}
    IN  IF nl = {} THEN <<s>>
        ELSE <<SubSeq(s, 1, Min(nl) - 1)>> \o SplitLines(SubSeq(s, Min(nl) + 1, Len(s)))

W_min  == <<"m", "i", "n">>
W_hour == <<"h", "o", "u", "r">>
W_h    == <<"h">>
W_km   == <<"k", "m">>
W_m    == <<"m">>

\* lines 178 and 194: 'min' in line.lower() or 'hour' in line.lower()
LooksLikeTime(line) == Contains(Lower(line), W_min) \/ Contains(Lower(line), W_hour)

\* lines 180 and 197: 'km' in line.lower() or 'm' in line.lower()
LooksLikeDistance(line) == Contains(Lower(line), W_km) \/ Contains(Lower(line), W_m)

\* the value a variable holds after `for line in lines: if P(line): v = line`,
\* hits being the positions of the lines that P holds of
LastWhere(lines, hits, before) ==
    IF hits = {} THEN before
    ELSE lines[CHOOSE i \in hits : \A j \in hits : j <= i]

\* the value a variable holds after
\* `for line in lines: if not v and P(line): v = line`, hits being the positions
\* of the lines that P holds of
FirstWhere(lines, hits, before) ==
    IF before # <<>> \/ hits = {} THEN before ELSE lines[Min(hits)]

\* re.search(r'\d+\s*(min|hour|h)', s) finds a match (line 195)
HasTimePattern(s) ==
    \/ SearchNumUnit(s, DigitSet, W_min) # NoMatch
    \/ SearchNumUnit(s, DigitSet, W_hour) # NoMatch
    \/ SearchNumUnit(s, DigitSet, W_h) # NoMatch

\* re.search(r'\d+\.?\d*\s*(km|m)', s) finds a match (line 198): the positions
\* the pattern can stand at after \d+, after \.?, after \d*, after \s*
HasDistancePattern(s) ==
    LET afterInt  == {p \in 2..(Len(s) + 1) : s[p - 1] \in DigitSet}
        afterDot  == afterInt \cup {p + 1 : p \in {q \in afterInt : q <= Len(s) /\ s[q] = "."}}
        afterFrac == UNION {p..RunEnd(s, p, DigitSet) : p \in afterDot}
        afterSp   == UNION {p..RunEnd(s, p, Space) : p \in afterFrac}
    IN  \E p \in afterSp : HasAt(s, p, W_km) \/ HasAt(s, p, W_m)

\* re.findall(r'(\d+\s*(?:h|hour|min)(?:\s*\d+\s*min)?)', s, re.IGNORECASE):
\* its first element, or <<>> when the list is empty (lines 208-210)
FirstTimeMatch(s) ==
    LET l == Lower(s)
        unitAt(i) == RunEnd(l, RunEnd(l, i, DigitSet), Space)
        unit(p) == IF HasAt(l, p, W_h) THEN W_h
                   ELSE IF HasAt(l, p, W_hour) THEN W_hour
                   ELSE IF HasAt(l, p, W_min) THEN W_min ELSE <<>>
        starts == {i \in 1..Len(l) : l[i] \in DigitSet /\ unit(unitAt(i)) # <<>>}
    IN  IF starts = {} THEN <<>>
        ELSE LET i == Min(starts)
                 p == unitAt(i) + Len(unit(unitAt(i)))
                 q == RunEnd(l, p, Space)
                 r == RunEnd(l, q, DigitSet)
                 t == RunEnd(l, r, Space)
                 tail == r > q /\ HasAt(l, t, W_min)
             IN  SubSeq(s, i, IF tail THEN t + 2 ELSE p - 1)

\* re.findall(r'([\d.]+\s*(?:km|m))', s, re.IGNORECASE): its first element, or
\* <<>> when the list is empty (lines 213-215)
FirstDistanceMatch(s) ==
    LET l == Lower(s)
        cls == DigitSet \cup {"."}
        unitAt(i) == RunEnd(l, RunEnd(l, i, cls), Space)
        starts == {i \in 1..Len(l) :
                      l[i] \in cls /\ (HasAt(l, unitAt(i), W_km) \/ HasAt(l, unitAt(i), W_m))}
    IN  IF starts = {} THEN <<>>
        ELSE LET i == Min(starts)
                 p == unitAt(i)
             IN  SubSeq(s, i, IF HasAt(l, p, W_km) THEN p + 1 ELSE p)

\* round(n / d) of Python on floats.  round() rounds the exact value of the
\* double it is given, and that double is the one nearest the quotient: where
\* the quotient is not halfway between two integers the result is the nearest
\* integer; where it is halfway, the double lies on either side of the tie (or on
\* it, and round() then picks the even neighbour), so both neighbours are
\* results the arithmetic can give.
Round(n, d) ==
    LET q == n \div d
        r == n % d
    IN  IF 2 * r < d THEN {q}
        ELSE IF 2 * r > d THEN {q + 1}
        ELSE {q, q + 1}

AvgSpeedPerMinute(distance_km, time_min) ==
    {Num(k, 2) : k \in Round(distance_km.m * 100, time_min.m * Pow10(distance_km.e))}

\* round(distance_km / (time_min / 60), 2), lines 230-233: the values it can give
AvgSpeed(distance_km, time_min) ==
    {Num(k, 2) : k \in Round(distance_km.m * 6000, time_min.m * Pow10(distance_km.e))}


(***************************************************************************)
(* What the render client answers.  Each set is one call's possible        *)
(* answers; an environment is a record of such sets, so that a             *)
(* specification can draw the answers from few or from many.               *)
(***************************************************************************)
NL == <<"\n">>
T_15min  == <<"1", "5", " ", "m", "i", "n">>
T_20min  == <<"2", "0", " ", "m", "i", "n">>
T_45min  == <<"4", "5", " ", "m", "i", "n">>
T_0min   == <<"0", " ", "m", "i", "n">>
T_1h30   == <<"1", " ", "h", " ", "3", "0", " ", "m", "i", "n">>
T_1hour5 == <<"1", " ", "h", "o", "u", "r", " ", "5", " ", "m", "i", "n">>
T_5_2km  == <<"5", ".", "2", " ", "k", "m">>
T_10km   == <<"1", "0", " ", "k", "m">>
T_45km   == <<"4", "5", " ", "K", "M">>
T_0km    == <<"0", " ", "k", "m">>
T_800m   == <<"8", "0", "0", " ", "m">>
T_badkm  == <<"1", ".", "2", ".", "3", " ", "k", "m">>
T_via    == <<"v", "i", "a", " ", "A", "1">>
T_tag    == <<"<", "p", ">">>

\* answers of the first route summary (lines 167-172): no such element, a text,
\* or a failure of count() or inner_text()
Route(text) == [kind |-> "text", text |-> text]
NoRoute == [kind |-> "absent", text |-> <<>>]
RouteCountFails == [kind |-> "count_raises", text |-> <<>>]
RouteTextFails == [kind |-> "text_raises", text |-> <<>>]

\* answers of page.inner_text (line 189) and page.content (line 206): a text or
\* a failure
Text(text) == [kind |-> "text", text |-> text]
TextFails == [kind |-> "raises", text |-> <<>>]

EnvUnit ==
    [goto    |-> {"ok", "timeout", "error"},
     consent |-> {"absent", "clicked", "click_timeout", "count_raises"},
     panel   |-> {"ready", "absent", "error"},
     route   |-> {NoRoute, RouteCountFails, RouteTextFails,
                  Route(T_15min \o NL \o T_5_2km),
                  Route(T_5_2km \o NL \o T_15min),
                  Route(T_10km \o NL \o T_1h30),
                  Route(T_20min \o NL \o T_10km),
                  Route(T_1h30 \o NL \o T_45km \o NL \o T_via),
                  Route(T_45min \o NL \o T_800m),
                  Route(T_15min \o NL \o T_0km),
                  Route(T_0min \o NL \o T_5_2km),
                  Route(T_15min \o NL \o T_badkm),
                  Route(T_5_2km),
                  Route(T_via)},
     section |-> {TextFails,
                  Text(T_via),
                  Text(T_via \o NL \o T_45min \o NL \o T_10km)},
     content |-> {TextFails,
                  Text(T_tag),
                  Text(T_tag \o T_1hour5 \o T_tag \o T_5_2km \o T_tag),
                  Text(T_tag \o T_1h30 \o T_tag \o T_800m)}]

EnvMain ==
    [goto    |-> {"ok", "error"},
     consent |-> {"absent"},
     panel   |-> {"ready", "absent"},
     route   |-> {Route(T_15min \o NL \o T_5_2km), Route(T_5_2km)},
     section |-> {TextFails},
     content |-> {Text(T_tag)}]

EnvRuns ==
    [goto    |-> {"ok", "error"},
     consent |-> {"absent"},
     panel   |-> {"ready"},
     route   |-> {Route(T_20min \o NL \o T_10km)},
     section |-> {TextFails},
     content |-> {TextFails}]

(***************************************************************************)
(* scrape_route, lines 106-247                                             *)
(***************************************************************************)
\* entries of the call log: a render-client call that returned, or that raised e
Call(op) == [op |-> op, raised |-> "none"]
CallRaised(op, e) == [op |-> op, raised |-> e.type]

\* lines 110-121
ScrapeStart ==
    /\ pc = "scrape_route"
    /\ start_time' = clock
    /\ result' = [timestamp |-> clock,
                  od_pair |-> OD_PAIRS[idx].name,
                  origin |-> OD_PAIRS[idx].origin,
                  destination |-> OD_PAIRS[idx].destination,
                  time_min |-> None,
                  distance_km |-> None,
                  avg_speed_kmh |-> None,
                  process_time_sec |-> Num(0, 0),
                  status |-> Status("failed")]
    /\ time_text' = <<>>
    /\ distance_text' = <<>>
    /\ route_text' = <<>>
    /\ exc' = NoExc
    /\ calls' = <<>>
    /\ pc' = "goto"
    /\ UNCHANGED <<run, idx, results, clock, requests, slept, csv, file_exists,
                   written, arg, ret>>

\* an exception e raised inside the try of line 123, outside the inner trys,
\* when the record is res: the handler of line 238 sets the status if it
\* catches e, and e stays in flight if it does not; then the finally of line 242
Raised(e, res) ==
    IF OuterHandlerCatches(e)
    THEN [result |-> [res EXCEPT !.status = ErrorStatus(e)], exc |-> NoExc]
    ELSE [result |-> res, exc |-> e]

RaiseInUnit(e, res) ==
    /\ result' = Raised(e, res).result
    /\ exc' = Raised(e, res).exc
    /\ pc' = "finally"

GotoRetrying(env) ==
    /\ pc = "goto"
    /\ requests' = requests + 1
    /\ slept' = 0
    /\ \E answer \in env.goto :
          IF answer = "ok"
          THEN /\ calls' = Append(calls, Call("goto"))
               /\ clock' = clock
               /\ pc' = "consent"
               /\ UNCHANGED <<result, exc>>
          ELSE /\ calls' = Append(calls, CallRaised("goto", NetError))
               /\ clock' = clock
               /\ IF Len(calls) < 2
                  THEN UNCHANGED <<pc, result, exc>>
                  ELSE RaiseInUnit(NetError, result)
    /\ UNCHANGED <<run, idx, results, time_text, distance_text, route_text, start_time, csv,
                   file_exists, written, arg, ret>>

\* line 134: page.goto(url, wait_until="domcontentloaded", timeout=30000)
Goto(env) ==
    /\ pc = "goto"
    /\ requests' = requests + 1
    /\ slept' = 0
    /\ \E answer \in env.goto :
          CASE answer = "ok" ->
                  /\ calls' = Append(calls, Call("goto"))
                  /\ clock' = clock
                  /\ pc' = "consent"
                  /\ UNCHANGED <<result, exc>>
            [] answer = "timeout" ->
                  /\ calls' = Append(calls, CallRaised("goto", TimeoutExc))
                  /\ clock' = clock + GOTO_TIMEOUT
                  /\ RaiseInUnit(TimeoutExc, result)
            [] answer = "error" ->
                  /\ calls' = Append(calls, CallRaised("goto", NetError))
                  /\ clock' = clock
                  /\ RaiseInUnit(NetError, result)
    /\ UNCHANGED <<run, idx, results, time_text, distance_text, route_text, start_time, csv,
                   file_exists, written, arg, ret>>

\* lines 136-144: the cookie consent popup; whatever fails here is caught
Consent(env) ==
    /\ pc = "consent"
    /\ \E answer \in env.consent :
          CASE answer = "absent" ->
                  /\ calls' = Append(calls, Call("count"))
                  /\ clock' = clock
            [] answer = "clicked" ->
                  /\ calls' = calls \o <<Call("count"), Call("click"),
                                         Call("wait_for_timeout")>>
                  /\ clock' = clock + CONSENT_WAIT
            [] answer = "click_timeout" ->
                  /\ calls' = calls \o <<Call("count"), CallRaised("click", TimeoutExc)>>
                  /\ clock' = clock + CLICK_TIMEOUT
            [] answer = "count_raises" ->
                  /\ calls' = Append(calls, CallRaised("count", NetError))
                  /\ clock' = clock
    /\ pc' = "wait_panel"
    /\ UNCHANGED <<run, idx, results, result, time_text, distance_text, route_text, exc,
                   start_time, requests, slept, csv, file_exists, written, arg, ret>>

PanelWaitWithoutTimeout(present) == IF present THEN "ready" ELSE "hang"

\* page.wait_for_selector('div[jstcache="3"]', timeout=15000), line 148: it
\* returns when the element is there and raises PlaywrightTimeout after the
\* timeout when it is not
PanelWait(present) == IF present THEN "ready" ELSE "timeout"

\* lines 146-161
WaitPanel(env) ==
    /\ pc = "wait_panel"
    /\ \E answer \in env.panel :
          CASE answer = "error" ->
                  /\ calls' = Append(calls, CallRaised("wait_for_selector", NetError))
                  /\ clock' = clock
                  /\ RaiseInUnit(NetError, result)
            [] answer # "error" /\ PanelWait(answer = "ready") = "ready" ->
                  /\ calls' = calls \o <<Call("wait_for_selector"),
                                         Call("wait_for_timeout")>>
                  /\ clock' = clock + PANEL_SETTLE
                  /\ pc' = "strategy1"
                  /\ UNCHANGED <<result, exc>>
            [] answer # "error" /\ PanelWait(answer = "ready") = "timeout" ->
                  /\ calls' = Append(calls, CallRaised("wait_for_selector", TimeoutExc))
                  /\ clock' = clock + PANEL_TIMEOUT
                  /\ IF PanelHandlerCatches(TimeoutExc)
                     THEN /\ result' = [result EXCEPT !.status = Status("timeout")]
                          /\ exc' = NoExc
                          /\ pc' = "finally"
                     ELSE RaiseInUnit(TimeoutExc, result)
            [] answer # "error" /\ PanelWait(answer = "ready") = "hang" ->
                  /\ calls' = calls
                  /\ clock' = clock
                  /\ pc' = "hung"
                  /\ UNCHANGED <<result, exc>>
    /\ time_text' = <<>>
    /\ distance_text' = <<>>
    /\ route_text' = <<>>
    /\ UNCHANGED <<run, idx, results, start_time, requests, slept, csv,
                   file_exists, written, arg, ret>>

\* lines 163-183
Strategy1(env) ==
    /\ pc = "strategy1"
    /\ \E answer \in env.route :
          CASE answer.kind = "text" ->
                  LET lines == SplitLines(answer.text)
                      times == {i \in 1..Len(lines) : LooksLikeTime(lines[i])}
                      distances == {i \in 1..Len(lines) : LooksLikeDistance(lines[i])}
                  IN  /\ calls' = calls \o <<Call("count"), Call("inner_text")>>
                      /\ route_text' = answer.text
                      /\ time_text' = LastWhere(lines, times, time_text)
                      /\ distance_text' = LastWhere(lines, distances, distance_text)
            [] answer.kind = "absent" ->
                  /\ calls' = Append(calls, Call("count"))
                  /\ UNCHANGED <<time_text, distance_text, route_text>>
            [] answer.kind = "count_raises" ->
                  /\ calls' = Append(calls, CallRaised("count", NetError))
                  /\ UNCHANGED <<time_text, distance_text, route_text>>
            [] answer.kind = "text_raises" ->
                  /\ calls' = calls \o <<Call("count"), CallRaised("inner_text", NetError)>>
                  /\ UNCHANGED <<time_text, distance_text, route_text>>
    /\ pc' = "strategy2"
    /\ UNCHANGED <<run, idx, results, result, exc, clock, start_time, requests,
                   slept, csv, file_exists, written, arg, ret>>

\* the tests of lines 194-195 and 197-198 on a line
Strategy2Time(line) == LooksLikeTime(line) /\ HasTimePattern(Lower(line))
Strategy2Distance(line) == LooksLikeDistance(line) /\ HasDistancePattern(Lower(line))

\* lines 185-201
Strategy2(env) ==
    /\ pc = "strategy2"
    /\ IF time_text = <<>> \/ distance_text = <<>>
       THEN \E answer \in env.section :
               /\ calls' = Append(calls, IF answer.kind = "text" THEN Call("inner_text")
                                          ELSE CallRaised("inner_text", TimeoutExc))
               /\ IF answer.kind = "text"
                  THEN LET lines == SplitLines(answer.text)
                           times == {i \in 1..Len(lines) : Strategy2Time(lines[i])}
                           distances == {i \in 1..Len(lines) : Strategy2Distance(lines[i])}
                       IN  /\ time_text' = FirstWhere(lines, times, time_text)
                           /\ distance_text' = FirstWhere(lines, distances, distance_text)
                  ELSE UNCHANGED <<time_text, distance_text>>
       ELSE UNCHANGED <<calls, time_text, distance_text>>
    /\ pc' = "strategy3"
    /\ UNCHANGED <<run, idx, results, result, route_text, exc, clock, start_time, requests,
                   slept, csv, file_exists, written, arg, ret>>

Strategy3Overwriting(env) ==
    /\ pc = "strategy3"
    /\ \E answer \in env.content :
          /\ calls' = Append(calls, IF answer.kind = "text" THEN Call("content")
                                     ELSE CallRaised("content", NetError))
          /\ IF answer.kind = "text"
             THEN /\ time_text' = FirstTimeMatch(answer.text)
                  /\ distance_text' = FirstDistanceMatch(answer.text)
             ELSE UNCHANGED <<time_text, distance_text>>
    /\ pc' = "parse"
    /\ UNCHANGED <<run, idx, results, result, route_text, exc, clock, start_time,
                   requests, slept, csv, file_exists, written, arg, ret>>

\* lines 203-217
Strategy3(env) ==
    /\ pc = "strategy3"
    /\ IF time_text = <<>> \/ distance_text = <<>>
       THEN \E answer \in env.content :
               /\ calls' = Append(calls, IF answer.kind = "text" THEN Call("content")
                                          ELSE CallRaised("content", NetError))
               /\ IF answer.kind = "text"
                  THEN /\ time_text' = IF time_text = <<>>
                                       THEN FirstTimeMatch(answer.text) ELSE time_text
                       /\ distance_text' = IF distance_text = <<>>
                                           THEN FirstDistanceMatch(answer.text)
                                           ELSE distance_text
                  ELSE UNCHANGED <<time_text, distance_text>>
       ELSE UNCHANGED <<calls, time_text, distance_text>>
    /\ pc' = "parse"
    /\ UNCHANGED <<run, idx, results, result, route_text, exc, clock, start_time, requests,
                   slept, csv, file_exists, written, arg, ret>>

\* lines 221-236 on the record res and the extracted texts: the records and the
\* exception in flight they can leave.  A ValueError of float() in
\* parse_distance leaves line 226 for the handler of line 238, after line 223
\* has set time_min.
Parsed(res, tt, dt) ==
    LET time_min == IF tt # <<>> THEN parse_time(tt) ELSE res.time_min
        distance == IF dt # <<>> THEN parse_distance(dt) ELSE res.distance_km
        timed == [res EXCEPT !.time_min = time_min]
    IN  IF distance = ValueError
        THEN {Raised(FloatError, timed)}
        ELSE IF Truthy(time_min) /\ Truthy(distance) /\ time_min.m > 0
        THEN {[result |-> [timed EXCEPT !.distance_km = distance,
                                        !.avg_speed_kmh = speed,
                                        !.status = Status("success")],
               exc |-> NoExc] : speed \in AvgSpeed(distance, time_min)}
        ELSE {[result |-> [timed EXCEPT !.distance_km = distance,
                                        !.status = Status("incomplete_data")],
               exc |-> NoExc]}

\* lines 221-236
ParseExtracted ==
    /\ pc = "parse"
    /\ \E after \in Parsed(result, time_text, distance_text) :
          /\ result' = after.result
          /\ exc' = after.exc
    /\ pc' = "finally"
    /\ UNCHANGED <<run, idx, results, time_text, distance_text, route_text, calls, clock,
                   start_time, requests, slept, csv, file_exists, written, arg, ret>>

\* lines 242-247: the finally clause, then the return of the result, or the
\* exception that no handler caught leaving scrape_route
Finally ==
    /\ pc = "finally"
    /\ result' = [result EXCEPT !.process_time_sec = Num(clock - start_time, 0)]
    /\ pc' = IF exc = NoExc THEN "return" ELSE "raise"
    /\ UNCHANGED <<run, idx, results, time_text, distance_text, route_text, exc, calls, clock,
                   start_time, requests, slept, csv, file_exists, written, arg, ret>>


(***************************************************************************)
(* main, lines 250-323                                                     *)
(***************************************************************************)
\* csv.DictWriter(f, fieldnames=CSV_HEADERS).writerow(r): the cells of r in the
\* order of the columns
Row(r) == [header |-> FALSE, cells |-> [i \in 1..Len(CSV_HEADERS) |-> r[CSV_HEADERS[i]]]]

\* writer.writeheader()
HeaderRow == [header |-> TRUE, cells |-> CSV_HEADERS]

\* the value of result before scrape_route has built one
NoResult ==
    [timestamp |-> 0, od_pair |-> "", origin |-> "", destination |-> "",
     time_min |-> None, distance_km |-> None, avg_speed_kmh |-> None,
     process_time_sec |-> Num(0, 0), status |-> Status("failed")]

\* line 291: the next OD pair, or the end of the loop (and browser.close())
ForLoop ==
    /\ pc = "for"
    /\ pc' = IF idx <= Len(OD_PAIRS) THEN "scrape_route" ELSE "open_csv"
    /\ UNCHANGED <<run, idx, results, result, time_text, distance_text, route_text, exc, calls,
                   clock, start_time, requests, slept, csv, file_exists, written,
                   arg, ret>>

AfterScrapeWriteThrough ==
    /\ pc \in {"return", "raise"}
    /\ IF pc = "return"
       THEN /\ results' = Append(results, result)
            /\ csv' = [exists |-> TRUE, lines |-> Append(csv.lines, Row(result))]
            /\ pc' = "sleep"
       ELSE /\ pc' = "crashed"
            /\ UNCHANGED <<results, csv>>
    /\ UNCHANGED <<run, idx, result, time_text, distance_text, route_text, exc, calls, clock,
                   start_time, requests, slept, file_exists, written, arg, ret>>

AfterScrapeSkipFailed ==
    /\ pc \in {"return", "raise"}
    /\ IF pc = "return"
       THEN /\ results' = IF result.status = Status("success")
                          THEN Append(results, result) ELSE results
            /\ pc' = "sleep"
       ELSE /\ pc' = "crashed"
            /\ UNCHANGED results
    /\ UNCHANGED <<run, idx, result, time_text, distance_text, route_text, exc, calls, clock,
                   start_time, requests, slept, csv, file_exists, written, arg, ret>>

\* lines 292-293: scrape_route returned and its result is appended; an
\* exception that left scrape_route leaves main too, which has no handler
AfterScrape ==
    /\ pc \in {"return", "raise"}
    /\ IF pc = "return"
       THEN /\ results' = Append(results, result)
            /\ pc' = "sleep"
       ELSE /\ pc' = "crashed"
            /\ UNCHANGED results
    /\ UNCHANGED <<run, idx, result, time_text, distance_text, route_text, exc, calls, clock,
                   start_time, requests, slept, csv, file_exists, written, arg, ret>>

ThrottleAfterSuccessOnly ==
    /\ pc = "sleep"
    /\ IF result.status = Status("success")
       THEN /\ clock' = clock + REQUEST_DELAY
            /\ slept' = slept + REQUEST_DELAY
       ELSE UNCHANGED <<clock, slept>>
    /\ idx' = idx + 1
    /\ pc' = "for"
    /\ UNCHANGED <<run, results, result, time_text, distance_text, route_text, exc, calls,
                   start_time, requests, csv, file_exists, written, arg, ret>>

\* line 296: asyncio.sleep(3), then the next turn of the loop
Throttle ==
    /\ pc = "sleep"
    /\ clock' = clock + REQUEST_DELAY
    /\ slept' = slept + REQUEST_DELAY
    /\ idx' = idx + 1
    /\ pc' = "for"
    /\ UNCHANGED <<run, results, result, time_text, distance_text, route_text, exc, calls,
                   start_time, requests, csv, file_exists, written, arg, ret>>

OpenCsvAlwaysHeader ==
    /\ pc = "open_csv"
    /\ file_exists' = csv.exists
    /\ csv' = [exists |-> TRUE, lines |-> Append(csv.lines, HeaderRow)]
    /\ written' = 0
    /\ pc' = "write_rows"
    /\ UNCHANGED <<run, idx, results, result, time_text, distance_text, route_text, exc, calls,
                   clock, start_time, requests, slept, arg, ret>>

\* lines 301-308: the file is opened for appending, which creates it, and gets
\* the header if it was not there
OpenCsv ==
    /\ pc = "open_csv"
    /\ file_exists' = csv.exists
    /\ csv' = [exists |-> TRUE,
               lines |-> IF ~csv.exists THEN Append(csv.lines, HeaderRow) ELSE csv.lines]
    /\ written' = 0
    /\ pc' = "write_rows"
    /\ UNCHANGED <<run, idx, results, result, time_text, distance_text, route_text, exc, calls,
                   clock, start_time, requests, slept, arg, ret>>

\* lines 311-312: one turn of the loop over results
WriteRow ==
    /\ pc = "write_rows"
    /\ written < Len(results)
    /\ csv' = [csv EXCEPT !.lines = Append(@, Row(results[written + 1]))]
    /\ written' = written + 1
    /\ UNCHANGED <<pc, run, idx, results, result, time_text, distance_text, route_text, exc,
                   calls, clock, start_time, requests, slept, file_exists, arg, ret>>

\* lines 314-323: the file is closed and the summary printed
Finish ==
    /\ pc = "write_rows"
    /\ written = Len(results)
    /\ pc' = "done"
    /\ UNCHANGED <<run, idx, results, result, time_text, distance_text, route_text, exc, calls,
                   clock, start_time, requests, slept, csv, file_exists, written,
                   arg, ret>>

\* runs of main against one file that the model follows
MaxRuns == 2

\* line 327: the program is started again; the file and the clock stay
NextRun ==
    /\ pc = "done"
    /\ run < MaxRuns
    /\ run' = run + 1
    /\ pc' = "for"
    /\ idx' = 1
    /\ results' = <<>>
    /\ result' = NoResult
    /\ time_text' = <<>>
    /\ distance_text' = <<>>
    /\ route_text' = <<>>
    /\ exc' = NoExc
    /\ calls' = <<>>
    /\ requests' = 0
    /\ slept' = 0
    /\ file_exists' = FALSE
    /\ written' = 0
    /\ UNCHANGED <<clock, start_time, csv, arg, ret>>

(***************************************************************************)
(* The parsers called on their own                                         *)
(***************************************************************************)
RECURSIVE Str(_)
\* str() of a natural number
Str(n) == IF n < 10 THEN <<Digits[n + 1]>> ELSE Str(n \div 10) \o <<Digits[(n % 10) + 1]>>

\* the decimal numeral of x = [m, e], one fractional digit at most
DecText(x) ==
    IF x.e = 0 THEN Str(x.m)
    ELSE Str(x.m \div 10) \o <<".">> \o Str(x.m % 10)

\* An optional component is a sequence of no or one value.
HourParts == {<<>>, <<0>>, <<1>>, <<2>>, <<12>>}
MinuteParts == {<<>>, <<0>>, <<5>>, <<30>>, <<45>>}
KmParts == {<<>>, <<[m |-> 0, e |-> 0]>>, <<[m |-> 52, e |-> 1]>>,
            <<[m |-> 10, e |-> 0]>>, <<[m |-> 8, e |-> 1]>>}
MeterParts == {<<>>, <<[m |-> 800, e |-> 0]>>, <<[m |-> 50, e |-> 0]>>,
               <<[m |-> 5, e |-> 1]>>}
Styles == {"plain", "long", "upper"}

\* duration texts as the docstring of parse_time shows them ('15 min',
\* '1 h 30 min'), and with longer unit words, capitals and white space around
DurationText(h, m, style) ==
    LET hu == CASE style = "plain" -> <<" ", "h">>
                [] style = "long"  -> <<" ", "h", "r">>
                [] style = "upper" -> <<"H">>
        mu == CASE style = "plain" -> <<" ", "m", "i", "n">>
                [] style = "long"  -> <<" ", "m", "i", "n", "s">>
                [] style = "upper" -> <<"M", "I", "N">>
        ht == IF h = <<>> THEN <<>> ELSE Str(h[1]) \o hu
        mt == IF m = <<>> THEN <<>> ELSE Str(m[1]) \o mu
        sep == IF h # <<>> /\ m # <<>> THEN <<" ">> ELSE <<>>
        pad == IF style = "long" THEN <<" ">> ELSE <<>>
    IN  pad \o ht \o sep \o mt \o pad

\* distance texts as the docstring of parse_distance shows them ('5.2 km',
\* '500 m'); the style "long" puts the meters first
DistanceText(km, m, style) ==
    LET ku == IF style = "upper" THEN <<"K", "M">> ELSE <<" ", "k", "m">>
        mu == IF style = "upper" THEN <<"M">> ELSE <<" ", "m">>
        kt == IF km = <<>> THEN <<>> ELSE DecText(km[1]) \o ku
        mt == IF m = <<>> THEN <<>> ELSE DecText(m[1]) \o mu
        sep == IF km # <<>> /\ m # <<>> THEN <<" ">> ELSE <<>>
    IN  IF style = "long" THEN mt \o sep \o kt ELSE kt \o sep \o mt

T_no_numbers == <<"n", "o", " ", "n", "u", "m", "b", "e", "r", "s", " ",
                  "h", "e", "r", "e">>

ParserTexts ==
    {DurationText(h, m, st) : h \in HourParts, m \in MinuteParts, st \in Styles}
    \cup {DistanceText(k, m, st) : k \in KmParts, m \in MeterParts, st \in Styles}
    \cup {T_no_numbers, T_badkm}

CallParseTime ==
    /\ pc = "parser"
    /\ ret' = parse_time(arg)
    /\ pc' = "parse_time"
    /\ UNCHANGED <<run, idx, results, result, time_text, distance_text, route_text, exc, calls,
                   clock, start_time, requests, slept, csv, file_exists, written, arg>>

CallParseDistance ==
    /\ pc = "parser"
    /\ ret' = parse_distance(arg)
    /\ pc' = "parse_distance"
    /\ UNCHANGED <<run, idx, results, result, time_text, distance_text, route_text, exc, calls,
                   clock, start_time, requests, slept, csv, file_exists, written, arg>>

(***************************************************************************)
(* Specifications                                                          *)
(***************************************************************************)
InitLocals ==
    /\ result = NoResult
    /\ time_text = <<>>
    /\ distance_text = <<>>
    /\ route_text = <<>>
    /\ exc = NoExc
    /\ calls = <<>>
    /\ start_time = 0
    /\ file_exists = FALSE
    /\ written = 0
    /\ arg = <<>>
    /\ ret = None

\* main is started, and no CSV file is there
Init ==
    /\ pc = "for"
    /\ run = 1
    /\ idx = 1
    /\ results = <<>>
    /\ clock = 0
    /\ requests = 0
    /\ slept = 0
    /\ csv = [exists |-> FALSE, lines |-> <<>>]
    /\ InitLocals

\* scrape_route is called on one of the OD pairs
InitUnit ==
    /\ pc = "scrape_route"
    /\ run = 1
    /\ idx \in 1..Len(OD_PAIRS)
    /\ results = <<>>
    /\ clock = 0
    /\ requests = 0
    /\ slept = 0
    /\ csv = [exists |-> FALSE, lines |-> <<>>]
    /\ InitLocals

\* a parser is called on a text
InitParse ==
    /\ pc = "parser"
    /\ run = 1
    /\ idx = 1
    /\ results = <<>>
    /\ clock = 0
    /\ requests = 0
    /\ slept = 0
    /\ csv = [exists |-> FALSE, lines |-> <<>>]
    /\ result = NoResult
    /\ time_text = <<>>
    /\ distance_text = <<>>
    /\ route_text = <<>>
    /\ exc = NoExc
    /\ calls = <<>>
    /\ start_time = 0
    /\ file_exists = FALSE
    /\ written = 0
    /\ arg \in ParserTexts
    /\ ret = None

UnitStep(env) ==
    \/ ScrapeStart
    \/ Goto(env)
    \/ Consent(env)
    \/ WaitPanel(env)
    \/ Strategy1(env)
    \/ Strategy2(env)
    \/ Strategy3(env)
    \/ ParseExtracted
    \/ Finally

MainStep ==
    \/ ForLoop
    \/ AfterScrape
    \/ Throttle
    \/ OpenCsv
    \/ WriteRow
    \/ Finish

\* one run of main
Next == UnitStep(EnvMain) \/ MainStep
Spec == Init /\ [][Next]_vars

\* runs of main one after the other against the same file
NextRuns == UnitStep(EnvRuns) \/ MainStep \/ NextRun
SpecRuns == Init /\ [][NextRuns]_vars

\* one call of scrape_route
NextUnit == UnitStep(EnvUnit)
SpecUnit == InitUnit /\ [][NextUnit]_vars

\* one call of a parser
NextParse == CallParseTime \/ CallParseDistance
SpecParse == InitParse /\ [][NextParse]_vars


(***************************************************************************)
(* Properties of scrape_route                                              *)
(***************************************************************************)
Abs(x) == IF x < 0 THEN 0 - x ELSE x

\* how many calls of op the call log of the unit holds
Count(op) == Cardinality({i \in 1..Len(calls) : calls[i].op = op})

\* the last render-client call of the unit was op, and it raised
LastCallRaised(op) ==
    /\ calls # <<>>
    /\ calls[Len(calls)].op = op
    /\ calls[Len(calls)].raised # "none"

\* the statuses that say a unit did not succeed
FailedKinds == {"failed", "timeout", "incomplete_data", "error"}

\* C1: whichever OD pair scrape_route is called on and whatever call of the
\* render client fails, no exception leaves scrape_route: it returns the record
\* of its OD pair, whose status is success or one of the failed outcomes.
C1_UnitAlwaysReturnsRecord ==
    /\ pc # "raise"
    /\ pc = "return" =>
          /\ exc = NoExc
          /\ result.od_pair = OD_PAIRS[idx].name
          /\ result.status.kind \in {"success"} \cup FailedKinds

C1_Witness ==
    /\ pc = "return"
    /\ LastCallRaised("wait_for_selector")
    /\ calls[Len(calls)].raised = "Error"
    /\ result.status.kind = "error"

PanelTimedOut ==
    /\ LastCallRaised("wait_for_selector")
    /\ calls[Len(calls)].raised = "TimeoutError"

NoMeasurement(r) ==
    /\ r.time_min = None
    /\ r.distance_km = None
    /\ r.avg_speed_kmh = None

\* C4 as claimed: a timeout of the readiness wait is treated as a navigation
\* error, that is, it ends as a timeout of page.goto does, with the status the
\* handler of line 238 gives, and the record holds no time, distance or speed.
C4_TimeoutTreatedAsNavigationError ==
    (pc = "return" /\ PanelTimedOut) =>
        /\ result.status = ErrorStatus(TimeoutExc)
        /\ NoMeasurement(result)

\* the places of scrape_route in the order it passes them; at each but the
\* last a step waits only for the render client's answer
UnitOrder == <<"scrape_route", "goto", "consent", "wait_panel", "strategy1",
               "strategy2", "strategy3", "parse", "finally", "return">>

Rank(p) ==
    IF \E i \in 1..Len(UnitOrder) : UnitOrder[i] = p
    THEN CHOOSE i \in 1..Len(UnitOrder) : UnitOrder[i] = p
    ELSE 0

\* C4 as amended: a timeout of the readiness wait ends the unit's only attempt
\* with the status "timeout" of its own handler (it is not handled as a
\* navigation error and nothing is retried), the record holds no time,
\* distance or speed, and the unit never hangs: scrape_route is never at a
\* place where it waits for ever, and each of its steps takes it nearer to its
\* return.
C4_TimeoutEndsUnit ==
    /\ [](Rank(pc) > 0)
    /\ []((pc = "return" /\ PanelTimedOut) =>
            /\ result.status = Status("timeout")
            /\ Count("goto") = 1
            /\ NoMeasurement(result))
    /\ [][Rank(pc') > Rank(pc)]_vars

C4_Witness ==
    /\ pc = "return"
    /\ PanelTimedOut
    /\ result.status = Status("timeout")

\* C7: in a record scrape_route returns, avg_speed_kmh is there only if the
\* time is known and greater than 0 and the distance is known, and it is then
\* distance_km / (time_min / 60) to the nearest hundredth; 10 km in 20 min
\* give 30.0.
C7_AvgSpeed ==
    pc = "return" =>
        LET v == result.avg_speed_kmh
            t == result.time_min
            d == result.distance_km
        IN  /\ v # None =>
                  /\ t # None
                  /\ t.m > 0
                  /\ d # None
                  /\ v.e <= 2
                  /\ 2 * Abs(v.m * Pow10(2 - v.e) * t.m * Pow10(d.e) - d.m * 6000)
                        <= t.m * Pow10(d.e)
            /\ (t = Num(20, 0) /\ d = Num(10, 0)) => v = Num(30, 0)

C7_Witness ==
    /\ pc = "return"
    /\ result.time_min = Num(20, 0)
    /\ result.distance_km = Num(10, 0)
    /\ result.avg_speed_kmh = Num(30, 0)

(***************************************************************************)
(* Properties of main                                                      *)
(***************************************************************************)
\* the statuses of the results so far
KindsSoFar == {results[i].status.kind : i \in 1..Len(results)}

\* the lines of the CSV file that are not the header
DataRows == SelectSeq(csv.lines, LAMBDA l : ~l.header)

\* the main has left its loop over OD_PAIRS
LoopEnded == pc \in {"open_csv", "write_rows", "done"}

\* C2: no outcome of a unit aborts the run: main never ends on an exception,
\* the results are those of the OD pairs in the order of the configuration, one
\* each, and when the loop has ended there is one for every OD pair.
C2_EveryPairProcessed ==
    /\ pc # "crashed"
    /\ Len(results) <= Len(OD_PAIRS)
    /\ \A i \in 1..Len(results) : results[i].od_pair = OD_PAIRS[i].name
    /\ LoopEnded => Len(results) = Len(OD_PAIRS)

C2_Witness ==
    /\ pc = "open_csv"
    /\ Len(results) = Len(OD_PAIRS)
    /\ results[1].status.kind = "error"
    /\ results[2].status.kind = "timeout"
    /\ results[3].status.kind = "success"
    /\ KindsSoFar = {"error", "timeout", "incomplete_data", "success"}

\* C5: when main is about to make a render request (page.goto) after an
\* earlier one of the run, the whole delay of line 296 has been slept since
\* that earlier request, however the earlier unit ended.
C5_DelayBetweenRequests ==
    (pc = "goto" /\ requests >= 1) => slept >= REQUEST_DELAY

C5_Witness ==
    /\ pc = "goto"
    /\ requests = 4
    /\ KindsSoFar = {"error", "timeout", "incomplete_data", "success"}
    /\ slept = REQUEST_DELAY

\* C6: the run writes no row to the CSV file before every OD pair has been
\* processed, and the rows it then writes are its results in the order the
\* units were processed.
C6_NoPartialPersistence ==
    LET base == (run - 1) * Len(OD_PAIRS)
    IN  /\ Len(DataRows) = base + (IF pc \in {"write_rows", "done"} THEN written ELSE 0)
        /\ Len(DataRows) > base => Len(results) = Len(OD_PAIRS)
        /\ \A i \in 1..(Len(DataRows) - base) : DataRows[base + i] = Row(results[i])

C6_Witness ==
    /\ pc = "done"
    /\ written = Len(OD_PAIRS)
    /\ Len(DataRows) = Len(OD_PAIRS)
    /\ "error" \in KindsSoFar
    /\ "success" \in KindsSoFar

\* C10: whatever the number of runs against the same file, the file holds one
\* header line, its first, written by the run that found no file, and then
\* lines of the fixed columns only; when a run is done the file holds one row
\* per OD pair and run, in the order of the OD pairs.
C10_StableSchema ==
    LET n == Len(OD_PAIRS)
    IN  /\ ~csv.exists => csv.lines = <<>>
        /\ csv.exists =>
              /\ csv.lines # <<>>
              /\ csv.lines[1] = HeaderRow
              /\ \A i \in 2..Len(csv.lines) :
                    /\ ~csv.lines[i].header
                    /\ Len(csv.lines[i].cells) = Len(CSV_HEADERS)
        /\ pc \in {"write_rows", "done"} => (file_exists <=> run > 1)
        /\ pc = "done" =>
              /\ Len(csv.lines) = 1 + run * n
              /\ \A r \in 1..run, k \in 1..n :
                    csv.lines[1 + (r - 1) * n + k].cells[2] = OD_PAIRS[k].name

C10_Witness ==
    /\ pc = "done"
    /\ run >= 2
    /\ Len(csv.lines) = 1 + run * Len(OD_PAIRS)
    /\ \E i, j \in 2..Len(csv.lines) :
          /\ csv.lines[i].cells[9].kind = "error"
          /\ csv.lines[j].cells[9].kind = "success"

(***************************************************************************)
(* Properties of the parsers                                               *)
(***************************************************************************)
\* hours * 60 + minutes of the components a duration text was written from, and
\* None when that is 0
ExpectedMinutes(h, m) ==
    LET total == (IF h = <<>> THEN 0 ELSE h[1] * 60) + (IF m = <<>> THEN 0 ELSE m[1])
    IN  IF total > 0 THEN Num(total, 0) ELSE None

\* C8: parse_time returns hours*60 + minutes of the hour component and the
\* minute component of the text, each taken on its own, and None when neither
\* is there or the total is 0: '1 h 30 min' gives 90, '45 min' gives 45,
\* 'no numbers here' gives None, '0 min' gives None.
C8_ParseTime ==
    pc = "parse_time" =>
        /\ \A h \in HourParts, m \in MinuteParts, st \in Styles :
              arg = DurationText(h, m, st) => ret = ExpectedMinutes(h, m)
        /\ arg = T_1h30 => ret = Num(90, 0)
        /\ arg = T_45min => ret = Num(45, 0)
        /\ arg = T_no_numbers => ret = None
        /\ arg = T_0min => ret = None

C8_Witness ==
    /\ pc = "parse_time"
    /\ arg = DurationText(<<1>>, <<30>>, "plain")
    /\ arg = T_1h30
    /\ ret = Num(90, 0)

\* the kilometers a distance text states: its kilometer component if it has
\* one, else its meter component over 1000, else None
ExpectedKm(km, m) ==
    IF km # <<>> THEN Num(km[1].m, km[1].e)
    ELSE IF m # <<>> THEN Num(m[1].m, m[1].e + 3)
    ELSE None

\* the same in meters
ExpectedMeters(km, m) ==
    IF km # <<>> THEN Num(km[1].m * 1000, km[1].e)
    ELSE IF m # <<>> THEN Num(m[1].m, m[1].e)
    ELSE None

\* C9 as claimed: parse_distance returns meters, N km giving N*1000 and N m
\* giving N: '5.2 km' gives 5200 and '800 m' gives 800.
C9_ReturnsMeters ==
    pc = "parse_distance" =>
        /\ \A k \in KmParts, m \in MeterParts, st \in Styles :
              arg = DistanceText(k, m, st) => ret = ExpectedMeters(k, m)
        /\ arg = T_5_2km => ret = Num(5200, 0)
        /\ arg = T_800m => ret = Num(800, 0)

\* C9 as amended: parse_distance returns kilometers: a kilometer component
\* N km gives N, a meter component N m gives N/1000 and is used only when no
\* kilometer component matched, a text with neither gives None: '5.2 km' gives
\* 5.2 and '800 m' gives 0.8.
C9_ReturnsKilometers ==
    pc = "parse_distance" =>
        /\ \A k \in KmParts, m \in MeterParts, st \in Styles :
              arg = DistanceText(k, m, st) => ret = ExpectedKm(k, m)
        /\ arg = T_5_2km => ret = Num(52, 1)
        /\ arg = T_800m => ret = Num(8, 1)
        /\ arg = T_no_numbers => ret = None

C9_Witness ==
    /\ pc = "parse_distance"
    /\ arg = DistanceText(<<>>, <<[m |-> 800, e |-> 0]>>, "plain")
    /\ arg = T_800m
    /\ ret = Num(8, 1)

(***************************************************************************)
(* Properties of the classification and of the extraction in scrape_route  *)
(***************************************************************************)
\* the record holds a time, a distance and a speed
Measured(r) ==
    /\ r.time_min # None
    /\ r.distance_km # None
    /\ r.avg_speed_kmh # None

\* C11: in a record scrape_route returns, the status is success exactly when
\* time_min, distance_km and avg_speed_kmh are all there; a record whose
\* extraction gave a duration and a distance, a distance of 0 included, is
\* classified success; a record that is not a success has no avg_speed_kmh.
C11_SuccessIffMeasured ==
    pc = "return" =>
        /\ result.status = Status("success") <=> Measured(result)
        /\ (result.time_min # None /\ result.distance_km # None) =>
              result.status = Status("success")
        /\ result.status # Status("success") => result.avg_speed_kmh = None

\* the route summary '15 min' / '0 km' is extracted and parsed, 0 km to 0.0,
\* and the record that holds both figures is classified incomplete_data
C11_Witness ==
    /\ pc = "return"
    /\ time_text = T_15min
    /\ distance_text = T_0km
    /\ result.time_min = Num(15, 0)
    /\ result.distance_km = Num(0, 0)
    /\ result.avg_speed_kmh = None
    /\ result.status = Status("incomplete_data")

\* the lines of a route summary that state a duration, and those that state a
\* distance, with the kilometers they state
DurationLines == {T_15min, T_20min, T_45min, T_0min, T_1h30}
DistanceLines == {T_5_2km, T_10km, T_45km, T_0km, T_800m}
DistanceLineKm(line) ==
    CASE line = T_5_2km -> Num(52, 1)
      [] line = T_10km  -> Num(10, 0)
      [] line = T_45km  -> Num(45, 0)
      [] line = T_0km   -> Num(0, 0)
      [] line = T_800m  -> Num(8, 1)

\* C12: when the first route summary text is one duration line and one distance
\* line, in either order, the distance text chosen is the distance line, never
\* the duration line, and the distance_km of the returned record is the value
\* of the distance line.
C12_DistanceLineChosen ==
    pc = "return" =>
        \A d \in DurationLines, k \in DistanceLines :
            route_text \in {d \o NL \o k, k \o NL \o d} =>
                /\ distance_text = k
                /\ distance_text # d
                /\ result.distance_km = DistanceLineKm(k)

\* the summary '5.2 km' / '15 min': the duration line is the distance text, its
\* '15 m' is parsed as meters, and the record is a success of 0.015 km
C12_Witness ==
    /\ pc = "return"
    /\ route_text = T_5_2km \o NL \o T_15min
    /\ time_text = T_15min
    /\ distance_text = T_15min
    /\ result.time_min = Num(15, 0)
    /\ result.distance_km = Num(15, 3)
    /\ result.avg_speed_kmh = Num(6, 2)
    /\ result.status = Status("success")

\* the step after a strategy, and whether the step being taken is a strategy
\* whose call of the render client raised
AfterStrategy(p) ==
    CASE p = "strategy1" -> "strategy2"
      [] p = "strategy2" -> "strategy3"
      [] p = "strategy3" -> "parse"

StrategyRaised ==
    /\ pc \in {"strategy1", "strategy2", "strategy3"}
    /\ calls' # calls
    /\ calls'[Len(calls')].raised # "none"

\* C13: the strategies are a fallback chain.  Strategy 2 and Strategy 3 call
\* the render client only when the time text or the distance text is still
\* missing; neither replaces a text already found; a strategy whose call
\* raises leaves both texts as they were, no exception in flight, and the next
\* strategy (after Strategy 3, the parsing) is the next step.
C13_FallbackChain ==
    [][/\ (pc \in {"strategy2", "strategy3"} /\ calls' # calls) =>
             (time_text = <<>> \/ distance_text = <<>>)
       /\ pc \in {"strategy2", "strategy3"} =>
             /\ time_text # <<>> => time_text' = time_text
             /\ distance_text # <<>> => distance_text' = distance_text
       /\ StrategyRaised =>
             /\ time_text' = time_text
             /\ distance_text' = distance_text
             /\ exc' = NoExc
             /\ pc' = AfterStrategy(pc)]_vars

\* Strategy 1 found the distance only, Strategy 2 raised, Strategy 3 ran and
\* found the time, and the distance of Strategy 1 is the one recorded
C13_Witness ==
    /\ pc = "return"
    /\ route_text = T_5_2km
    /\ \E i \in 1..Len(calls) : calls[i] = CallRaised("inner_text", TimeoutExc)
    /\ calls[Len(calls)] = Call("content")
    /\ distance_text = T_5_2km
    /\ time_text # <<>>
    /\ result.distance_km = Num(52, 1)
    /\ result.status = Status("success")

=============================================================================
